---- MODULE Spec2Model ----
(***************************************************************************)
(* CyclingOnion: the wardrobe (wardrobe.py) and the outfit optimizer       *)
(* (outfitter.py).                                                         *)
(*                                                                         *)
(* Numbers.  The source computes with Python floats.  The model keeps      *)
(* every quantity exact in a fixed unit:                                   *)
(*   temperatures and temperature shifts   whole degrees Celsius           *)
(*   wind_boost                            tenths       (0.5  is 5)        *)
(*   complexity                            quarters     (0.75 is 3)        *)
(*   rain probability, wind speed, hours   whole numbers                   *)
(*   discomfort scores                     1/300        (see get_discomfort)*)
(***************************************************************************)
EXTENDS Integers, Sequences, FiniteSets, TLC

VARIABLES
    catalog,    \* WARDROBE, the module-level list behind get_clothing_wardrobe()
    call,       \* the last direct call of a wardrobe.py method and its outcome
    requests,   \* the get_optimized_outfit invocations, by request
    scored      \* the last direct get_discomfort call and the one before it

vars == <<catalog, call, requests, scored>>

----------------------------------------------------------------------------
(* wardrobe.py: the enums *)

UPPER == 1
LOWER == 2
HANDS == 3
FEET == 4
HEAD == 5
BodyPart == {UPPER, LOWER, HANDS, FEET, HEAD}

ACCESSORY == 0
INNER == 1
MID == 2
OUTER == 3
LayerType == {ACCESSORY, INNER, MID, OUTER}

----------------------------------------------------------------------------
(* wardrobe.py: the Clothing dataclass with its field defaults *)

Clothing(name, layer_type, body_part) ==
    [name |-> name, layer_type |-> layer_type, body_part |-> body_part,
     main_comfort_min |-> 50, main_comfort_max |-> 0,
     temp_shift_min |-> 0, temp_shift_max |-> 0,
     wind_boost |-> 0,
     waterproof |-> FALSE, windproof |-> FALSE, removable |-> FALSE,
     complexity |-> 4]

(* The catalog of the source, item by item. *)
WARDROBE ==
    << \* Upper Body
       [Clothing("Sweat Base", INNER, UPPER) EXCEPT
            !.temp_shift_min = -3, !.temp_shift_max = 0, !.removable = FALSE, !.complexity = 2],
       [Clothing("Thermal Base Long", INNER, UPPER) EXCEPT
            !.temp_shift_min = -6, !.temp_shift_max = -5, !.removable = FALSE, !.complexity = 6],
       [Clothing("Merino Base Long", INNER, UPPER) EXCEPT
            !.temp_shift_min = -5, !.temp_shift_max = -1, !.removable = FALSE, !.complexity = 0],
       [Clothing("Jersey", MID, UPPER) EXCEPT
            !.main_comfort_min = 20, !.main_comfort_max = 30,
            !.temp_shift_min = 0, !.temp_shift_max = -1],
       [Clothing("Thermal Jersey", MID, UPPER) EXCEPT
            !.main_comfort_min = 15, !.main_comfort_max = 18,
            !.temp_shift_min = -4, !.temp_shift_max = -5, !.wind_boost = 5,
            !.removable = FALSE, !.complexity = 8],
       [Clothing("Arm Warmers", ACCESSORY, UPPER) EXCEPT
            !.temp_shift_min = -3, !.temp_shift_max = -2, !.wind_boost = 5, !.removable = TRUE],
       [Clothing("Wind Jacket", OUTER, UPPER) EXCEPT
            !.main_comfort_min = 15, !.main_comfort_max = 20,
            !.windproof = TRUE, !.removable = TRUE],
       [Clothing("Sportful Total Comfort Winter Jacket", OUTER, UPPER) EXCEPT
            !.main_comfort_min = 10, !.main_comfort_max = 15,
            !.windproof = TRUE, !.waterproof = TRUE, !.complexity = 10],
       \* Lower Body
       [Clothing("Short Bibs", MID, LOWER) EXCEPT
            !.main_comfort_min = 15, !.main_comfort_max = 35],
       [Clothing("Sportful Fiandre Bibshort", MID, LOWER) EXCEPT
            !.main_comfort_min = 9, !.main_comfort_max = 22,
            !.temp_shift_min = -3, !.temp_shift_max = -4, !.waterproof = TRUE],
       [Clothing("Sportful Fiandre Long Bibs", MID, LOWER) EXCEPT
            !.main_comfort_min = 6, !.main_comfort_max = 15,
            !.temp_shift_min = -6, !.wind_boost = 5, !.temp_shift_max = -7,
            !.waterproof = TRUE],
       [Clothing("Winter Bibs", OUTER, LOWER) EXCEPT
            !.main_comfort_min = 3, !.main_comfort_max = 10,
            !.waterproof = TRUE, !.windproof = TRUE, !.complexity = 6],
       [Clothing("Leg Warmers", ACCESSORY, LOWER) EXCEPT
            !.temp_shift_min = -3, !.temp_shift_max = -4, !.removable = TRUE],
       \* Feet
       [Clothing("Cycling Socks", INNER, FEET) EXCEPT
            !.temp_shift_min = -1, !.complexity = -4],
       [Clothing("Thermal Socks", INNER, FEET) EXCEPT
            !.temp_shift_min = -5, !.temp_shift_max = -2, !.complexity = -4],
       [Clothing("Cycling Shoes", MID, FEET) EXCEPT
            !.main_comfort_min = 18, !.main_comfort_max = 28, !.wind_boost = 5],
       [Clothing("Winter Shoes", OUTER, FEET) EXCEPT
            !.main_comfort_min = 8, !.main_comfort_max = 15,
            !.waterproof = TRUE, !.windproof = TRUE, !.complexity = 8],
       [Clothing("Toe Covers", ACCESSORY, FEET) EXCEPT
            !.temp_shift_min = -2, !.temp_shift_max = -1, !.wind_boost = 5,
            !.waterproof = FALSE, !.removable = TRUE, !.complexity = 2],
       [Clothing("Shoe Covers", ACCESSORY, FEET) EXCEPT
            !.temp_shift_min = -4, !.temp_shift_max = -2,
            !.windproof = TRUE, !.waterproof = TRUE, !.removable = TRUE, !.complexity = 3],
       \* Hands
       [Clothing("Short Gloves", MID, HANDS) EXCEPT
            !.main_comfort_min = 16, !.main_comfort_max = 35, !.removable = TRUE],
       [Clothing("Light Gloves", MID, HANDS) EXCEPT
            !.main_comfort_min = 10, !.main_comfort_max = 23,
            !.temp_shift_min = -2, !.temp_shift_max = -1, !.removable = TRUE, !.complexity = 4],
       [Clothing("Thermal Gloves", OUTER, HANDS) EXCEPT
            !.main_comfort_min = 2, !.main_comfort_max = 14,
            !.waterproof = TRUE, !.windproof = TRUE, !.removable = TRUE, !.complexity = 10],
       [Clothing("Bare Hands", MID, HANDS) EXCEPT
            !.main_comfort_min = 18, !.main_comfort_max = 40],
       \* Head
       [Clothing("Sportful Thermal Headband", MID, HEAD) EXCEPT
            !.main_comfort_min = 5, !.main_comfort_max = 18,
            !.windproof = TRUE, !.waterproof = TRUE, !.removable = TRUE],
       [Clothing("Cap", MID, HEAD) EXCEPT
            !.main_comfort_min = 0, !.main_comfort_max = 15, !.windproof = TRUE],
       [Clothing("Bare Head", MID, HEAD) EXCEPT
            !.main_comfort_min = 16, !.main_comfort_max = 40] >>

(* The items the test suite builds by hand (wardrobe_test.py, the two setUp *)
(* methods).                                                               *)
TEST_ITEMS ==
    << [Clothing("Base Layer", INNER, UPPER) EXCEPT
            !.temp_shift_min = -4, !.temp_shift_max = -2],
       [Clothing("Jacket", OUTER, UPPER) EXCEPT
            !.main_comfort_min = 10, !.main_comfort_max = 18, !.windproof = TRUE],
       [Clothing("Thermal Jacket", OUTER, UPPER) EXCEPT
            !.main_comfort_min = 5, !.main_comfort_max = 15,
            !.waterproof = TRUE, !.windproof = TRUE, !.removable = FALSE, !.complexity = 8] >>

(* Further Clothing values a caller can construct: an outer shell that is   *)
(* not windproof, accessories with a wind_boost of 0.5 and of 0.4, and a   *)
(* mid layer and an accessory that state no comfort range at all.          *)
EXTRA_ITEMS ==
    << [Clothing("Shell", OUTER, UPPER) EXCEPT
            !.main_comfort_min = 10, !.main_comfort_max = 20, !.wind_boost = 5],
       [Clothing("Buff", ACCESSORY, UPPER) EXCEPT !.wind_boost = 5],
       [Clothing("Gilet", MID, UPPER) EXCEPT !.wind_boost = 4, !.removable = TRUE],
       [Clothing("Visor", ACCESSORY, HEAD) EXCEPT !.wind_boost = 4] >>

----------------------------------------------------------------------------
(* wardrobe.py: Clothing.get_discomfort.  The score is returned in units of *)
(* 1/300: the cold factor 0.33 + hours/3 is (99 + 100*hours)/300, 0.75 is  *)
(* 225/300, 0.5 is 150/300, 5 * complexity is 375/300 per quarter and the  *)
(* removable bonus -4.5 is -1350/300.                                      *)

(* The cold penalty without the duration factor of line 82. *)
cold_penalty_unscaled(self, temp_min, temp_max, duration_hours) ==
    (IF temp_min < self.main_comfort_min
       THEN (self.main_comfort_min - temp_min) * (self.main_comfort_min - temp_min)
       ELSE 0) * 300

cold_penalty(self, temp_min, temp_max, duration_hours) ==
    (IF temp_min < self.main_comfort_min
       THEN (self.main_comfort_min - temp_min) * (self.main_comfort_min - temp_min)
       ELSE 0) * (99 + 100 * duration_hours)

(* The warm penalty under an `if` of its own instead of the `elif`. *)
warm_penalty_independent(self, temp_min, temp_max) ==
    (IF temp_max > self.main_comfort_max
       THEN (temp_max - self.main_comfort_max) * (temp_max - self.main_comfort_max)
       ELSE 0) * 300

warm_penalty(self, temp_min, temp_max) ==
    (IF temp_min < self.main_comfort_min
       THEN 0
       ELSE IF temp_max > self.main_comfort_max
              THEN (temp_max - self.main_comfort_max) * (temp_max - self.main_comfort_max)
              ELSE 0) * 300

(* The rain penalty charged to waterproof items too. *)
rain_penalty_unprotected(self, rain_prob) == 225 * rain_prob

rain_penalty(self, rain_prob) == IF ~self.waterproof THEN 225 * rain_prob ELSE 0

wind_penalty(self, wind_speed) == IF ~self.windproof THEN 150 * wind_speed ELSE 0

remove_bonus(self) == IF self.removable THEN -1350 ELSE 0

(* The complexity added as it is, without the factor 5. *)
complexity_penalty_unweighted(self) == 75 * self.complexity

complexity_penalty(self) == 375 * self.complexity

get_discomfort(self, temp_min, temp_max, rain_prob, wind_speed, duration_hours) ==
    cold_penalty(self, temp_min, temp_max, duration_hours)
    + warm_penalty(self, temp_min, temp_max)
    + rain_penalty(self, rain_prob) + wind_penalty(self, wind_speed)
    + complexity_penalty(self) + remove_bonus(self)

----------------------------------------------------------------------------
(* wardrobe.py: ClothingCombo.get_clothing_item_equivalent *)

(* sorted(items, key=lambda x: x.layer_type.value): Python's sort is stable, *)
(* so items of one layer keep their order and the layers follow by value.  *)
SortedByLayer(items) ==
    SelectSeq(items, LAMBDA c : c.layer_type = ACCESSORY)
    \o SelectSeq(items, LAMBDA c : c.layer_type = INNER)
    \o SelectSeq(items, LAMBDA c : c.layer_type = MID)
    \o SelectSeq(items, LAMBDA c : c.layer_type = OUTER)

(* `x or default`: the default replaces every falsy x, and 0 is the only   *)
(* falsy number.                                                           *)
OrDefault(x, default) == IF x = 0 THEN default ELSE x

(* " + ".join(names) *)
RECURSIVE JoinNames(_)
JoinNames(layers) ==
    IF Len(layers) = 0 THEN ""
    ELSE IF Len(layers) = 1 THEN layers[1].name
    ELSE layers[1].name \o " + " \o JoinNames(Tail(layers))

(* The base properties taken from the outer layer (lines 112-118). *)
OuterBase(outer) ==
    [eff_min |-> OrDefault(outer.main_comfort_min, 15),
     eff_max |-> OrDefault(outer.main_comfort_max, 35),
     waterproof |-> outer.waterproof,
     windproof |-> outer.windproof,
     wind_boost |-> outer.wind_boost,
     complexity |-> outer.complexity,
     removable |-> outer.removable]

(* A copied line left unedited: eff_max += inner.temp_shift_min. *)
CombineInner_copied(acc, inner) ==
    [eff_min |-> acc.eff_min + inner.temp_shift_min,
     eff_max |-> acc.eff_max + inner.temp_shift_min,
     wind_boost |-> acc.wind_boost + inner.wind_boost,
     waterproof |-> acc.waterproof \/ inner.waterproof,
     windproof |-> acc.windproof \/ inner.windproof,
     complexity |-> acc.complexity + inner.complexity,
     removable |-> acc.removable \/ inner.removable]

(* One pass of the loop body over an inner layer (lines 122-128). *)
CombineInner(acc, inner) ==
    [eff_min |-> acc.eff_min + inner.temp_shift_min,
     eff_max |-> acc.eff_max + inner.temp_shift_max,
     wind_boost |-> acc.wind_boost + inner.wind_boost,
     waterproof |-> acc.waterproof \/ inner.waterproof,
     windproof |-> acc.windproof \/ inner.windproof,
     complexity |-> acc.complexity + inner.complexity,
     removable |-> acc.removable \/ inner.removable]

(* for inner in sorted_layers[:-1] *)
RECURSIVE CombineInners(_, _)
CombineInners(acc, inners) ==
    IF Len(inners) = 0 THEN acc
    ELSE CombineInners(CombineInner(acc, Head(inners)), Tail(inners))

(* > for >= *)
WindproofOf_strict(acc) == acc.windproof \/ acc.wind_boost > 9

(* if wind_boost >= 0.9: windproof = True *)
WindproofOf(acc) == acc.windproof \/ acc.wind_boost >= 9

get_clothing_item_equivalent(combo_items) ==
    LET sorted_layers == SortedByLayer(combo_items)
        outer == sorted_layers[Len(sorted_layers)]
        acc == CombineInners(OuterBase(outer),
                             SubSeq(sorted_layers, 1, Len(sorted_layers) - 1))
    IN  [Clothing(JoinNames(sorted_layers), outer.layer_type, outer.body_part) EXCEPT
            !.main_comfort_min = acc.eff_min,
            !.main_comfort_max = acc.eff_max,
            !.wind_boost = acc.wind_boost,
            !.waterproof = acc.waterproof,
            !.windproof = WindproofOf(acc),
            !.removable = acc.removable,
            !.complexity = acc.complexity]

----------------------------------------------------------------------------
(* wardrobe.py: ClothingWardrobe *)

(* grouped_clothing_items: a dict from each body part that has an item to   *)
(* the list of its items, in catalog order.  A part without items is no key.*)
grouped_clothing_items(clothing_items) ==
    [bp \in {clothing_items[i].body_part : i \in DOMAIN clothing_items} |->
        SelectSeq(clothing_items, LAMBDA c : c.body_part = bp)]

(* itertools.combinations(items, r) as index tuples: the r-subsets of       *)
(* lo..n in lexicographic order.                                           *)
RECURSIVE CombinationIndices(_, _, _)
CombinationIndices(lo, n, r) ==
    IF r = 0 THEN << <<>> >>
    ELSE IF n - lo + 1 < r THEN <<>>
    ELSE LET with == CombinationIndices(lo + 1, n, r - 1)
         IN  [k \in 1..Len(with) |-> <<lo>> \o with[k]]
             \o CombinationIndices(lo + 1, n, r)

combinations(items, r) ==
    LET idx == CombinationIndices(1, Len(items), r)
    IN  [k \in 1..Len(idx) |-> [j \in 1..r |-> items[idx[k][j]]]]

CountLayer(clothing_combo, layer) ==
    Cardinality({i \in DOMAIN clothing_combo : clothing_combo[i].layer_type = layer})

(* The three `continue` tests of the loop body (lines 170-181): TRUE when   *)
(* the subset is skipped.                                                  *)
(* The test of the mid layers left out. *)
TooManyOfALayer_mids(clothing_combo) ==
    \/ CountLayer(clothing_combo, OUTER) > 1
    \/ CountLayer(clothing_combo, INNER) > 1

TooManyOfALayer(clothing_combo) ==
    \/ CountLayer(clothing_combo, OUTER) > 1
    \/ CountLayer(clothing_combo, MID) > 1
    \/ CountLayer(clothing_combo, INNER) > 1

(* The test for a main layer left out. *)
NoMainLayer_never(clothing_combo) == FALSE

NoMainLayer(clothing_combo) ==
    ~ \E i \in DOMAIN clothing_combo : clothing_combo[i].layer_type \in {MID, OUTER}

(* `or` for the first `and`: every subset with an outer layer is skipped. *)
OuterAlone_or(clothing_combo) ==
    \/ CountLayer(clothing_combo, OUTER) = 1
    \/ /\ CountLayer(clothing_combo, INNER) < 1
       /\ CountLayer(clothing_combo, MID) < 1

OuterAlone(clothing_combo) ==
    /\ CountLayer(clothing_combo, OUTER) = 1
    /\ CountLayer(clothing_combo, INNER) < 1
    /\ CountLayer(clothing_combo, MID) < 1

Skipped(clothing_combo) ==
    \/ TooManyOfALayer(clothing_combo)
    \/ NoMainLayer(clothing_combo)
    \/ OuterAlone(clothing_combo)

(* range(1, len(items)) for range(1, len(items) + 1): the subset of all the *)
(* items is never tried.                                                   *)
RECURSIVE KeptCombos_short(_, _)
KeptCombos_short(items, r) ==
    IF r >= Len(items) THEN <<>>
    ELSE SelectSeq(combinations(items, r), LAMBDA cc : ~Skipped(cc))
         \o KeptCombos_short(items, r + 1)

(* for r in range(1, len(items) + 1): for clothing_combo in combinations:   *)
(* the subsets that reach line 183, in the order they reach it.            *)
RECURSIVE KeptCombos(_, _)
KeptCombos(items, r) ==
    IF r > Len(items) THEN <<>>
    ELSE SelectSeq(combinations(items, r), LAMBDA cc : ~Skipped(cc))
         \o KeptCombos(items, r + 1)

(* Line 183: each kept subset is sorted by layer and handed to ClothingCombo.*)
ComposedCombos(items) ==
    LET kept == KeptCombos(items, 1)
    IN  [k \in 1..Len(kept) |-> SortedByLayer(kept[k])]

(* valid_combinations_for_part: all_items[body_part] raises KeyError when   *)
(* the part is no key of the grouping.  `composed` records the arguments   *)
(* of the ClothingCombo constructions, `value` is the list returned.       *)
valid_combinations_for_part(clothing_items, body_part) ==
    LET all_items == grouped_clothing_items(clothing_items)
    IN  IF body_part \notin DOMAIN all_items
          THEN [raised |-> "KeyError", composed |-> <<>>, value |-> <<>>]
          ELSE LET composed == ComposedCombos(all_items[body_part])
               IN  [raised |-> "",
                    composed |-> composed,
                    value |-> [k \in 1..Len(composed) |->
                                  get_clothing_item_equivalent(composed[k])]]

----------------------------------------------------------------------------
(* outfitter.py: get_optimized_outfit *)

(* The keys of the combos dict in insertion order, and the body part whose  *)
(* get_<part>_combinations() fills each (lines 12-18, wardrobe.py 186-204). *)
PartNames == <<"Head", "Upper Body", "Lower Body", "Hands", "Feet">>

PartOf(name) ==
    CASE name = "Head" -> HEAD
      [] name = "Upper Body" -> UPPER
      [] name = "Lower Body" -> LOWER
      [] name = "Hands" -> HANDS
      [] name = "Feet" -> FEET

(* The sort key computed from conditions that requests share: those of     *)
(* request r1 while it runs.                                               *)
SortKey_shared(x, weather, hours) ==
    LET other == requests["r1"]
        w == IF other.pc = "idle" THEN weather ELSE other.weather
        h == IF other.pc = "idle" THEN hours ELSE other.hours
    IN  get_discomfort(x, w.temp_min, w.temp_max, w.precip_prob, w.wind_max, h)

(* The sort key of line 22. *)
SortKey(x, weather, hours) ==
    get_discomfort(x, weather.temp_min, weather.temp_max,
                   weather.precip_prob, weather.wind_max, hours)

(* combo.sort(key=...): the key is computed once for each element, and     *)
(* list.sort is stable: an element comes before another when its key is    *)
(* smaller, or equal and its place earlier.                                *)
Precedes_reverse(key_j, j, key_i, i) == key_j > key_i \/ (key_j = key_i /\ j < i)

(* A sort that puts the later of two elements with equal keys first. *)
Precedes_unstable(key_j, j, key_i, i) == key_j < key_i \/ (key_j = key_i /\ j > i)

Precedes(key_j, j, key_i, i) == key_j < key_i \/ (key_j = key_i /\ j < i)

SortedByKey(combo, keys) ==
    LET n == Len(combo)
        place == SubSeq([i \in 1..n |->
                            1 + Cardinality({j \in 1..n : Precedes(keys[j], j, keys[i], i)})],
                        1, n)
    IN  [p \in 1..n |-> combo[CHOOSE i \in 1..n : place[i] = p]]

SortedByDiscomfort(combo, weather, hours) ==
    SortedByKey(combo, SubSeq([i \in 1..Len(combo) |-> SortKey(combo[i], weather, hours)],
                              1, Len(combo)))

(* Lines 11-18: the dict literal calls the five getters in order; the first *)
(* KeyError leaves the function.                                           *)
BuildCombosDict(clothing_items) ==
    LET got == [name \in {PartNames[i] : i \in DOMAIN PartNames} |->
                    valid_combinations_for_part(clothing_items, PartOf(name))]
    IN  IF \E name \in DOMAIN got : got[name].raised # ""
          THEN [raised |-> "KeyError", combos |-> <<>>]
          ELSE [raised |-> "", combos |-> [name \in DOMAIN got |-> got[name].value]]

----------------------------------------------------------------------------
(* The inputs *)

(* How many (body part, layer) classes of items a catalog may lack, and how *)
(* many items a directly constructed ClothingCombo may hold.               *)
MaxRemoved == 1
MaxComboSize == 3

(* The catalogs: the wardrobe of the source, or the hand-built items, with  *)
(* every item of up to MaxRemoved (body part, layer) classes taken out.    *)
BaseCatalogs == {WARDROBE, TEST_ITEMS \o EXTRA_ITEMS}

ClassesOf(items) == {<<items[i].body_part, items[i].layer_type>> : i \in DOMAIN items}

Without(items, classes) ==
    SelectSeq(items, LAMBDA c : <<c.body_part, c.layer_type>> \notin classes)

Catalogs ==
    UNION {{Without(base, classes) :
                classes \in {cs \in SUBSET ClassesOf(base) : Cardinality(cs) <= MaxRemoved}} :
           base \in BaseCatalogs}

(* The conditions the test suite scores under (wardrobe_test.py): the       *)
(* effective temperature range, rain probability and wind of the forecast, *)
(* and the ride's hours.                                                   *)
Scenario(temp_min, temp_max, rain, wind, duration) ==
    [weather |-> [temp_min |-> temp_min, temp_max |-> temp_max,
                  precip_prob |-> rain, wind_max |-> wind],
     hours |-> duration]

Scenarios ==
    {Scenario(15, 20, 0, 5, 2), Scenario(0, 5, 80, 25, 3), Scenario(28, 35, 0, 10, 2),
     Scenario(10, 15, 10, 10, 2), Scenario(-2, 8, 0, 10, 2), Scenario(10, 25, 0, 5, 2)}

(* The non-empty lists of at most MaxComboSize catalog items of one body    *)
(* part, in catalog order or reversed.                                     *)
Reversed(s) == [i \in 1..Len(s) |-> s[Len(s) + 1 - i]]

SubList(items, positions) == SelectSeq([i \in DOMAIN items |-> [pos |-> i, item |-> items[i]]],
                                       LAMBDA e : e.pos \in positions)

ComboInputs(clothing_items) ==
    LET PositionsOf(bp) == {i \in DOMAIN clothing_items : clothing_items[i].body_part = bp}
        picks == UNION {{ps \in SUBSET PositionsOf(bp) :
                            ps # {} /\ Cardinality(ps) <= MaxComboSize} : bp \in BodyPart}
        ItemsAt(ps) == LET sub == SubList(clothing_items, ps)
                       IN  [k \in 1..Len(sub) |-> sub[k].item]
    IN  {ItemsAt(ps) : ps \in picks} \cup {Reversed(ItemsAt(ps)) : ps \in picks}

----------------------------------------------------------------------------
(* The state machine *)

Requests == {"r1", "r2"}

NoCall == [op |-> "none", body_part |-> 0, combo_items |-> <<>>,
           raised |-> "", composed |-> <<>>, value |-> <<>>]

Idle == [pc |-> "idle", hours |-> 0, weather |-> <<>>, combos |-> <<>>,
         idx |-> 0, outfit |-> <<>>, raised |-> ""]

NoScores == [previous |-> <<>>, last |-> <<>>]

Init ==
    /\ catalog \in Catalogs
    /\ call = NoCall
    /\ requests = [r \in Requests |-> Idle]
    /\ scored = NoScores

(* A direct call of ClothingWardrobe(catalog).valid_combinations_for_part.  *)
ValidCombinationsForPart(body_part) ==
    /\ call.op = "none"
    /\ LET got == valid_combinations_for_part(catalog, body_part)
       IN  call' = [NoCall EXCEPT !.op = "valid_combinations_for_part",
                                  !.body_part = body_part,
                                  !.raised = got.raised,
                                  !.composed = got.composed,
                                  !.value = got.value]
    /\ UNCHANGED <<catalog, requests, scored>>

(* A direct call of ClothingCombo(combo_items).get_clothing_item_equivalent.*)
GetClothingItemEquivalent(combo_items) ==
    /\ call.op = "none"
    /\ call' = [NoCall EXCEPT !.op = "get_clothing_item_equivalent",
                              !.combo_items = combo_items,
                              !.value = get_clothing_item_equivalent(combo_items)]
    /\ UNCHANGED <<catalog, requests, scored>>

(* The caller drops what the call gave it (or the exception it raised).     *)
CallReturns ==
    /\ call.op # "none"
    /\ call' = NoCall
    /\ UNCHANGED <<catalog, requests, scored>>

(* Lines 7-9: the conditions are read from the forecast. *)
Start(r, scenario) ==
    /\ requests[r].pc = "idle"
    /\ requests' = [requests EXCEPT ![r] =
            [Idle EXCEPT !.pc = "build", !.hours = scenario.hours,
                         !.weather = scenario.weather]]
    /\ UNCHANGED <<catalog, call, scored>>

(* Lines 11-18 *)
BuildCombos(r) ==
    /\ requests[r].pc = "build"
    /\ LET built == BuildCombosDict(catalog)
       IN  requests' = [requests EXCEPT ![r] =
              IF built.raised # ""
                THEN [@ EXCEPT !.pc = "raised", !.raised = built.raised]
                ELSE [@ EXCEPT !.pc = "select", !.combos = built.combos, !.idx = 1]]
    /\ UNCHANGED <<catalog, call, scored>>

(* Lines 21-23, one iteration: the part's list is sorted in place and its   *)
(* first element taken; combo[0] of an empty list raises IndexError.       *)
SelectPart(r) ==
    /\ requests[r].pc = "select"
    /\ LET req == requests[r]
           name == PartNames[req.idx]
           combo == SortedByDiscomfort(req.combos[name], req.weather, req.hours)
           sorted == [req EXCEPT !.combos[name] = combo]
       IN  requests' = [requests EXCEPT ![r] =
              IF Len(combo) = 0
                THEN [sorted EXCEPT !.pc = "raised", !.raised = "IndexError"]
                ELSE [sorted EXCEPT
                        !.outfit = [k \in DOMAIN req.outfit \cup {name} |->
                                       IF k = name THEN combo[1] ELSE req.outfit[k]],
                        !.idx = req.idx + 1,
                        !.pc = IF req.idx = Len(PartNames) THEN "return" ELSE "select"]]
    /\ UNCHANGED <<catalog, call, scored>>

(* Line 25: the outfit goes to the caller and the request's working data is *)
(* discarded.                                                              *)
Return(r) ==
    /\ requests[r].pc = "return"
    /\ requests' = [requests EXCEPT ![r] = Idle]
    /\ UNCHANGED <<catalog, call, scored>>

(* The exception leaves get_optimized_outfit; nothing in it catches one.    *)
Raise(r) ==
    /\ requests[r].pc = "raised"
    /\ requests' = [requests EXCEPT ![r] = Idle]
    /\ UNCHANGED <<catalog, call, scored>>

(* The application runs one request at a time (cyclingonion_app.py, the     *)
(* button handler).                                                        *)
OthersIdle(r) == \A o \in Requests \ {r} : requests[o].pc = "idle"

Next ==
    \E r \in Requests :
        \/ OthersIdle(r) /\ \E scenario \in Scenarios : Start(r, scenario)
        \/ BuildCombos(r)
        \/ SelectPart(r)
        \/ Return(r)
        \/ Raise(r)

Spec == Init /\ [][Next]_vars

(* get_optimized_outfit called from several threads: the steps of the       *)
(* requests interleave.  No step writes anything but its request's own     *)
(* lists (grouped_clothing_items, combos and the sorted lists are built    *)
(* anew by every call), so a step is taken as a whole.                     *)
InitConcurrent ==
    /\ catalog \in BaseCatalogs
    /\ call = NoCall
    /\ requests = [r \in Requests |-> Idle]
    /\ scored = NoScores

NextConcurrent ==
    \E r \in Requests :
        \/ \E scenario \in Scenarios : Start(r, scenario)
        \/ BuildCombos(r)
        \/ SelectPart(r)
        \/ Return(r)
        \/ Raise(r)

SpecConcurrent == InitConcurrent /\ [][NextConcurrent]_vars

(* The wardrobe's methods called directly, as the test suite does. *)
NextWardrobe ==
    \/ \E body_part \in BodyPart : ValidCombinationsForPart(body_part)
    \/ call.op = "none" /\ \E combo_items \in ComboInputs(catalog) :
                               GetClothingItemEquivalent(combo_items)
    \/ CallReturns

SpecWardrobe == Init /\ [][NextWardrobe]_vars

(* The conditions get_discomfort is called with directly: the temperature   *)
(* ranges, rain probabilities, wind speeds and durations of the test suite,*)
(* in every combination.                                                   *)
DiscomfortConditions ==
    {Scenario(range[1], range[2], rain, wind, duration) :
        range \in {<<-2, 8>>, <<10, 25>>, <<28, 35>>},
        rain \in {0, 80}, wind \in {10, 25}, duration \in {2, 3}}

(* A direct call of self.get_discomfort, as the test suite makes on its     *)
(* items; the locals cold_penalty and warm_penalty are those of line 95.   *)
(* A caller compares the scores of one item.                               *)
GetDiscomfort(self, scenario) ==
    /\ scored.last # <<>> => scored.last.self = self
    /\ LET w == scenario.weather
       IN  scored' = [previous |-> scored.last,
                      last |-> [self |-> self,
                                temp_min |-> w.temp_min, temp_max |-> w.temp_max,
                                rain_prob |-> w.precip_prob, wind_speed |-> w.wind_max,
                                duration_hours |-> scenario.hours,
                                cold_penalty |-> cold_penalty(self, w.temp_min, w.temp_max,
                                                              scenario.hours),
                                warm_penalty |-> warm_penalty(self, w.temp_min, w.temp_max),
                                value |-> get_discomfort(self, w.temp_min, w.temp_max,
                                                         w.precip_prob, w.wind_max,
                                                         scenario.hours)]]
    /\ UNCHANGED <<catalog, call, requests>>

(* The caller drops the scores it holds. *)
ScoresDropped ==
    /\ scored.last # <<>>
    /\ scored' = NoScores
    /\ UNCHANGED <<catalog, call, requests>>

InitDiscomfort ==
    /\ catalog \in BaseCatalogs
    /\ call = NoCall
    /\ requests = [r \in Requests |-> Idle]
    /\ scored = NoScores

NextDiscomfort ==
    \/ \E i \in DOMAIN catalog : \E scenario \in DiscomfortConditions :
           GetDiscomfort(catalog[i], scenario)
    \/ ScoresDropped

SpecDiscomfort == InitDiscomfort /\ [][NextDiscomfort]_vars

----------------------------------------------------------------------------
(* The properties *)

(* What the properties say of a combination, stated without the code's      *)
(* operators: how many of its items wear one of the given layers.          *)
Wearing(combo, layers) ==
    Cardinality({i \in DOMAIN combo : combo[i].layer_type \in layers})

LayeringRules(combo) ==
    /\ Wearing(combo, {INNER}) <= 1
    /\ Wearing(combo, {MID}) <= 1
    /\ Wearing(combo, {OUTER}) <= 1
    /\ Wearing(combo, {MID, OUTER}) >= 1
    /\ Wearing(combo, {OUTER}) >= 1 => Wearing(combo, {INNER, MID}) >= 1

ItemsOfPart(body_part) == SelectSeq(catalog, LAMBDA c : c.body_part = body_part)

Members(combo) == {combo[i] : i \in DOMAIN combo}

GeneratorReturned ==
    call.op = "valid_combinations_for_part" /\ call.raised = ""

Score(item, req) ==
    get_discomfort(item, req.weather.temp_min, req.weather.temp_max,
                   req.weather.precip_prob, req.weather.wind_max, req.hours)

(* C1: the item get_optimized_outfit selects for a body part is one of the  *)
(* composed valid combinations of that part, and none of them has a lower  *)
(* discomfort score under the request's conditions.                        *)
C1_SelectionIsMinimal ==
    \A r \in Requests : \A name \in DOMAIN requests[r].outfit :
        LET all == valid_combinations_for_part(catalog, PartOf(name)).value
            picked == requests[r].outfit[name]
        IN  /\ \E k \in DOMAIN all : all[k] = picked
            /\ \A k \in DOMAIN all : Score(picked, requests[r]) <= Score(all[k], requests[r])

(* A request is about to return an outfit one of whose items is not the     *)
(* first combination enumerated and beats another combination strictly.    *)
C1_Witness ==
    \E r \in Requests :
        /\ requests[r].pc = "return"
        /\ \E name \in DOMAIN requests[r].outfit :
              LET all == valid_combinations_for_part(catalog, PartOf(name)).value
                  picked == requests[r].outfit[name]
              IN  /\ picked # all[1]
                  /\ \E k \in DOMAIN all : Score(picked, requests[r]) < Score(all[k], requests[r])

(* C2: every combination valid_combinations_for_part composes has at most   *)
(* one INNER, one MID and one OUTER item, has a MID or OUTER item, and has *)
(* an INNER or MID item if it has an OUTER one; every item returned has    *)
(* layer_type MID or OUTER and the body part asked for.                    *)
C2_CombinationsRespectRules ==
    GeneratorReturned =>
        /\ Len(call.value) = Len(call.composed)
        /\ \A k \in DOMAIN call.composed :
              /\ LayeringRules(call.composed[k])
              /\ call.value[k].layer_type \in {MID, OUTER}
              /\ call.value[k].body_part = call.body_part

(* The generator returned combinations of three and more items for a part   *)
(* that has two mid layers.                                                *)
C2_Witness ==
    /\ GeneratorReturned
    /\ Wearing(ItemsOfPart(call.body_part), {MID}) >= 2
    /\ \E k \in DOMAIN call.composed : Len(call.composed[k]) >= 3

(* C3: the result of valid_combinations_for_part has exactly one entry for  *)
(* every non-empty subset of the part's items that satisfies the layering  *)
(* rules, and no other entry.                                              *)
C3_CompleteAndDuplicateFree ==
    GeneratorReturned =>
        LET items == ItemsOfPart(call.body_part)
            valid == {ps \in SUBSET DOMAIN items :
                         ps # {} /\ LayeringRules([i \in ps |-> items[i]])}
        IN  /\ Len(call.value) = Cardinality(valid)
            /\ Len(call.composed) = Cardinality(valid)
            /\ \A ps \in valid :
                  Cardinality({k \in DOMAIN call.composed :
                                  /\ Len(call.composed[k]) = Cardinality(ps)
                                  /\ Members(call.composed[k]) = {items[i] : i \in ps}}) = 1

(* The generator was asked for a part of which some subsets satisfy the     *)
(* rules and some do not, the subset of all its items among the former.    *)
C3_Witness ==
    /\ GeneratorReturned
    /\ LET items == ItemsOfPart(call.body_part)
       IN  /\ Len(items) >= 3
           /\ LayeringRules(items)
           /\ Len(call.value) >= 3
           /\ \E ps \in SUBSET DOMAIN items : ps # {} /\ ~LayeringRules([i \in ps |-> items[i]])

(* C4, as claimed: every combination the generator composes holds exactly   *)
(* one item whose layer is MID or OUTER.                                   *)
C4_ExactlyOneMainLayer ==
    GeneratorReturned =>
        \A k \in DOMAIN call.composed : Wearing(call.composed[k], {MID, OUTER}) = 1

(* C4, amended: every combination the generator composes holds one or two   *)
(* items whose layer is MID or OUTER, at most one of each; a MID item and  *)
(* an OUTER item may be worn together.                                     *)
C4_OneOrTwoMainLayers ==
    GeneratorReturned =>
        \A k \in DOMAIN call.composed :
            /\ Wearing(call.composed[k], {MID, OUTER}) \in {1, 2}
            /\ Wearing(call.composed[k], {MID}) <= 1
            /\ Wearing(call.composed[k], {OUTER}) <= 1

(* The generator composed a combination of a MID and an OUTER item. *)
C4_Witness ==
    /\ GeneratorReturned
    /\ \E k \in DOMAIN call.composed :
          /\ Wearing(call.composed[k], {MID}) = 1
          /\ Wearing(call.composed[k], {OUTER}) = 1

(* C5, as claimed: for a body part with at least one catalog item the       *)
(* generator returns at least one combination.                             *)
C5_SomeCombinationForEveryPart ==
    GeneratorReturned => Len(call.value) >= 1

(* C5, amended: for a body part with at least one catalog item the          *)
(* generator returns at least one combination exactly when the part has a  *)
(* MID item, or an OUTER item and an INNER item; every combination it      *)
(* returns has a MID or OUTER main layer.                                  *)
C5_SomeCombinationIfMainLayerWearable ==
    GeneratorReturned =>
        LET items == ItemsOfPart(call.body_part)
        IN  /\ Len(call.value) >= 1 <=>
                  \/ Wearing(items, {MID}) >= 1
                  \/ Wearing(items, {OUTER}) >= 1 /\ Wearing(items, {INNER}) >= 1
            /\ \A k \in DOMAIN call.value : call.value[k].layer_type \in {MID, OUTER}

(* The generator returned combinations for a part that has no MID item, and *)
(* (in another call) nothing for a part that has items.                    *)
C5_Witness ==
    /\ GeneratorReturned
    /\ Wearing(ItemsOfPart(call.body_part), {MID}) = 0
    /\ Len(call.value) >= 1

C5_WitnessEmpty ==
    /\ GeneratorReturned
    /\ Len(ItemsOfPart(call.body_part)) >= 1
    /\ Len(call.value) = 0

(* C6, as claimed: asked for a body part of which the catalog has no item, *)
(* valid_combinations_for_part returns an empty list and raises nothing.   *)
C6_EmptyPartGivesEmptyResult ==
    (call.op = "valid_combinations_for_part" /\ Len(ItemsOfPart(call.body_part)) = 0)
        => (call.raised = "" /\ call.value = <<>>)

(* C7, as claimed: get_optimized_outfit never ends in an exception, also    *)
(* when a body part has no valid combination.                              *)
C7_OptimizerNeverFails ==
    \A r \in Requests : requests[r].pc # "raised"

ComposerReturned == call.op = "get_clothing_item_equivalent"

(* The place of the outermost item of a combo: the last of the items of the *)
(* highest layer.                                                          *)
Outermost(items) ==
    CHOOSE o \in DOMAIN items :
        \A i \in DOMAIN items :
            \/ items[i].layer_type < items[o].layer_type
            \/ items[i].layer_type = items[o].layer_type /\ i <= o

RECURSIVE Sum(_)
Sum(numbers) == IF Len(numbers) = 0 THEN 0 ELSE Head(numbers) + Sum(Tail(numbers))

(* The items other than the outermost one. *)
Underneath(items) ==
    LET o == Outermost(items)
    IN  SubSeq(items, 1, o - 1) \o SubSeq(items, o + 1, Len(items))

ShiftMin(items) == Sum([i \in DOMAIN items |-> items[i].temp_shift_min])
ShiftMax(items) == Sum([i \in DOMAIN items |-> items[i].temp_shift_max])

(* C8, as claimed: the range the composer starts from is the outermost      *)
(* item's own, with 15 for a minimum of 50 (unset) and 35 for a maximum of *)
(* 0 (unset); a stated minimum, 0 degrees included, is kept.               *)
C8_SentinelDefaults ==
    ComposerReturned =>
        LET items == call.combo_items
            outer == items[Outermost(items)]
        IN  /\ call.value.main_comfort_min - ShiftMin(Underneath(items))
                  = IF outer.main_comfort_min = 50 THEN 15 ELSE outer.main_comfort_min
            /\ call.value.main_comfort_max - ShiftMax(Underneath(items))
                  = IF outer.main_comfort_max = 0 THEN 35 ELSE outer.main_comfort_max

(* The items in inner-to-outer order: by layer, and within a layer as given.*)
InLayerOrder(items) ==
    LET n == Len(items)
        Place(i) == 1 + Cardinality({j \in 1..n :
                            \/ items[j].layer_type < items[i].layer_type
                            \/ items[j].layer_type = items[i].layer_type /\ j < i})
    IN  [p \in 1..n |-> items[CHOOSE i \in 1..n : Place(i) = p]]

(* C9: the synthetic item's comfort minimum and maximum are the baseline    *)
(* the outermost item seeds plus the temperature shifts of all the other   *)
(* members (not the outermost item's own); its complexity and wind_boost   *)
(* are the sums over all members; its waterproof and removable flags are   *)
(* the OR over all members; its name joins the members' names with " + "   *)
(* in inner-to-outer layer order.                                          *)
C9_SyntheticItemIsTheFold ==
    ComposerReturned =>
        LET items == call.combo_items
            outer == items[Outermost(items)]
            got == call.value
        IN  /\ got.main_comfort_min
                  = OuterBase(outer).eff_min + ShiftMin(Underneath(items))
            /\ got.main_comfort_max
                  = OuterBase(outer).eff_max + ShiftMax(Underneath(items))
            /\ got.complexity = Sum([i \in DOMAIN items |-> items[i].complexity])
            /\ got.wind_boost = Sum([i \in DOMAIN items |-> items[i].wind_boost])
            /\ got.waterproof <=> \E i \in DOMAIN items : items[i].waterproof
            /\ got.removable <=> \E i \in DOMAIN items : items[i].removable
            /\ got.name = JoinNames(InLayerOrder(items))

(* The composer was given three items, the outer one first, whose outer     *)
(* item has shifts of its own and whose other items shift the minimum and  *)
(* the maximum differently.                                                *)
C9_Witness ==
    /\ ComposerReturned
    /\ Len(call.combo_items) = 3
    /\ Outermost(call.combo_items) = 1
    /\ call.combo_items[1].temp_shift_min # 0
    /\ ShiftMin(Underneath(call.combo_items)) # ShiftMax(Underneath(call.combo_items))
    /\ \E i \in DOMAIN call.combo_items : call.combo_items[i].waterproof

(* The example: an inner with a shift of -4, an outer with a minimum of 10  *)
(* and a wind_boost of 0.5 that is not windproof, an accessory with a      *)
(* wind_boost of 0.5.                                                      *)
ExampleCombo == {TEST_ITEMS[1], EXTRA_ITEMS[1], EXTRA_ITEMS[2]}

(* C10: the synthetic item is windproof exactly when a member is windproof  *)
(* or the members' wind_boost sums to 0.9 or more; the example composes to *)
(* a minimum of 6 and windproof.                                           *)
C10_WindproofByFlagOrBoost ==
    ComposerReturned =>
        LET items == call.combo_items
        IN  /\ call.value.windproof <=>
                  \/ \E i \in DOMAIN items : items[i].windproof
                  \/ Sum([i \in DOMAIN items |-> items[i].wind_boost]) >= 9
            /\ Members(items) = ExampleCombo =>
                  call.value.main_comfort_min = 6 /\ call.value.windproof

(* The composer was given the example. *)
C10_Witness ==
    /\ ComposerReturned
    /\ Members(call.combo_items) = ExampleCombo
    /\ \A i \in DOMAIN call.combo_items : ~call.combo_items[i].windproof


----------------------------------------------------------------------------
(* The properties of the discomfort score (in units of 1/300) *)

Scored == scored.last # <<>>

ScoredTwice == scored.last # <<>> /\ scored.previous # <<>>

TooCold(s) == s.temp_min < s.self.main_comfort_min

TooWarm(s) == s.temp_max > s.self.main_comfort_max

(* The two calls differ in nothing but the named arguments. *)
SameExcept(a, b, fields) ==
    /\ a.self = b.self
    /\ \A f \in {"temp_min", "temp_max", "rain_prob", "wind_speed", "duration_hours"} \ fields :
           a[f] = b[f]

(* C11: get_discomfort returns cold + warm + rain + wind + 5*complexity     *)
(* + (-4.5 if removable), with cold = (min - temp_min)^2 * (0.33 +         *)
(* duration/3) when temp_min < min, warm = (temp_max - max)^2 when that    *)
(* test fails and temp_max > max, rain = 0.75*rain_prob unless waterproof  *)
(* and wind = 0.5*wind unless windproof; the item (min 5, max 15,          *)
(* waterproof, windproof, complexity 2, not removable) under (-2, 8, rain  *)
(* 0, wind 10, 2 hours) scores 58.83 to within 0.01.                       *)
C11_ScoreIsTheSumOfPenalties ==
    Scored =>
        LET s == scored.last
            item == s.self
            cold == IF TooCold(s)
                      THEN (item.main_comfort_min - s.temp_min) * (item.main_comfort_min - s.temp_min)
                           * (99 + 100 * s.duration_hours)
                      ELSE 0
            warm == IF ~TooCold(s) /\ TooWarm(s)
                      THEN 300 * (s.temp_max - item.main_comfort_max)
                               * (s.temp_max - item.main_comfort_max)
                      ELSE 0
            rain == IF item.waterproof THEN 0 ELSE 225 * s.rain_prob
            wind == IF item.windproof THEN 0 ELSE 150 * s.wind_speed
            bonus == IF item.removable THEN -1350 ELSE 0
        IN  /\ s.value = cold + warm + rain + wind + 5 * (75 * item.complexity) + bonus
            /\ (/\ item.main_comfort_min = 5 /\ item.main_comfort_max = 15
                /\ item.waterproof /\ item.windproof
                /\ item.complexity = 8 /\ ~item.removable
                /\ s.temp_min = -2 /\ s.temp_max = 8 /\ s.rain_prob = 0
                /\ s.wind_speed = 10 /\ s.duration_hours = 2)
               => (s.value - 17649 <= 3 /\ 17649 - s.value <= 3)

(* The test suite's jacket was scored under its cold conditions. *)
C11_Witness ==
    /\ Scored
    /\ scored.last.self = TEST_ITEMS[3]
    /\ scored.last.self.main_comfort_min = 5 /\ scored.last.self.complexity = 8
    /\ scored.last.temp_min = -2 /\ scored.last.temp_max = 8
    /\ scored.last.rain_prob = 0 /\ scored.last.wind_speed = 10
    /\ scored.last.duration_hours = 2
    /\ scored.last.cold_penalty > 0

(* C12: of two scores of one item under conditions with temp_min below the  *)
(* item's main_comfort_min that differ in duration_hours only, the one for *)
(* the longer duration is strictly greater.                                *)
C12_StrictlyIncreasingInDuration ==
    ScoredTwice =>
        LET a == scored.previous
            b == scored.last
        IN  (/\ SameExcept(a, b, {"duration_hours"})
             /\ TooCold(a)
             /\ a.duration_hours < b.duration_hours) => a.value < b.value

(* An item was scored for a shorter and then for a longer ride in the same  *)
(* too cold conditions.                                                    *)
C12_Witness ==
    /\ ScoredTwice
    /\ SameExcept(scored.previous, scored.last, {"duration_hours"})
    /\ TooCold(scored.previous)
    /\ scored.previous.self.main_comfort_min <= scored.previous.self.main_comfort_max
    /\ scored.previous.duration_hours < scored.last.duration_hours

(* C13: two scores of a waterproof item that differ in rain_prob only are   *)
(* equal, and two scores of a windproof item that differ in wind_speed     *)
(* only are equal.                                                         *)
C13_ProtectedItemsIgnoreRainAndWind ==
    ScoredTwice =>
        LET a == scored.previous
            b == scored.last
        IN  /\ (a.self.waterproof /\ SameExcept(a, b, {"rain_prob"})) => a.value = b.value
            /\ (a.self.windproof /\ SameExcept(a, b, {"wind_speed"})) => a.value = b.value

(* A waterproof item that is not windproof was scored under two rain        *)
(* probabilities, everything else equal.                                   *)
C13_Witness ==
    /\ ScoredTwice
    /\ scored.last.self.waterproof /\ ~scored.last.self.windproof
    /\ SameExcept(scored.previous, scored.last, {"rain_prob"})
    /\ scored.previous.rain_prob # scored.last.rain_prob

(* A windproof item that is not waterproof was scored under two wind        *)
(* speeds, everything else equal.                                          *)
C13_WitnessWind ==
    /\ ScoredTwice
    /\ scored.last.self.windproof /\ ~scored.last.self.waterproof
    /\ SameExcept(scored.previous, scored.last, {"wind_speed"})
    /\ scored.previous.wind_speed # scored.last.wind_speed

(* C16: in a get_discomfort call at most one of cold_penalty and            *)
(* warm_penalty is nonzero, and warm_penalty is 0 whenever temp_min is     *)
(* below the item's main_comfort_min, also if temp_max is above its        *)
(* main_comfort_max.                                                       *)
C16_ColdExcludesWarm ==
    Scored =>
        /\ ~(scored.last.cold_penalty # 0 /\ scored.last.warm_penalty # 0)
        /\ TooCold(scored.last) => scored.last.warm_penalty = 0

(* An item with a comfort range was scored in conditions both below and     *)
(* above it, and only the cold penalty was charged.                        *)
C16_Witness ==
    /\ Scored
    /\ scored.last.self.main_comfort_min <= scored.last.self.main_comfort_max
    /\ TooCold(scored.last) /\ TooWarm(scored.last)
    /\ scored.last.cold_penalty # 0 /\ scored.last.warm_penalty = 0


----------------------------------------------------------------------------
(* The properties of the scores the optimizer sorts by *)

(* The combinations a request chooses from, once it has built them. *)
Choosing(r) == requests[r].pc = "select"

ChoicesOf(r) ==
    UNION {Members(requests[r].combos[name]) : name \in DOMAIN requests[r].combos}

BelowComfort(item, req) == req.weather.temp_min < item.main_comfort_min

AboveComfort(item, req) == req.weather.temp_max > item.main_comfort_max

(* The score with the cold and the warm penalty each applied on its own    *)
(* condition.                                                              *)
IndependentScore(item, req) ==
    LET w == req.weather
    IN  (IF BelowComfort(item, req)
           THEN (item.main_comfort_min - w.temp_min) * (item.main_comfort_min - w.temp_min)
                * (99 + 100 * req.hours)
           ELSE 0)
        + (IF AboveComfort(item, req)
             THEN 300 * (w.temp_max - item.main_comfort_max) * (w.temp_max - item.main_comfort_max)
             ELSE 0)
        + (IF item.waterproof THEN 0 ELSE 225 * w.precip_prob)
        + (IF item.windproof THEN 0 ELSE 150 * w.wind_max)
        + 375 * item.complexity
        + (IF item.removable THEN -1350 ELSE 0)

(* C17 as stated: no composed combination of the catalog is both too cold   *)
(* and too warm under conditions with temp_min <= temp_max, and its score  *)
(* is the one with both penalties applied independently.                   *)
C17_NeverTooColdAndTooWarm ==
    \A r \in Requests :
        (Choosing(r) /\ requests[r].weather.temp_min <= requests[r].weather.temp_max) =>
            \A item \in ChoicesOf(r) :
                /\ ~(BelowComfort(item, requests[r]) /\ AboveComfort(item, requests[r]))
                /\ Score(item, requests[r]) = IndependentScore(item, requests[r])

(* C17, amended: a composed combination is both too cold and too warm when  *)
(* the conditions reach below its main_comfort_min and above its           *)
(* main_comfort_max; its score is then lower than the score with both      *)
(* penalties applied independently by (temp_max - main_comfort_max)^2, and *)
(* equal to it in every other case.                                        *)
C17_ExclusivityDropsTheWarmPenalty ==
    \A r \in Requests :
        (Choosing(r) /\ requests[r].weather.temp_min <= requests[r].weather.temp_max) =>
            \A item \in ChoicesOf(r) :
                IndependentScore(item, requests[r]) - Score(item, requests[r])
                    = IF BelowComfort(item, requests[r]) /\ AboveComfort(item, requests[r])
                        THEN 300 * (requests[r].weather.temp_max - item.main_comfort_max)
                                 * (requests[r].weather.temp_max - item.main_comfort_max)
                        ELSE 0

(* A request chooses among combinations of the source's wardrobe, one of    *)
(* which has a comfort range that the conditions exceed at both ends.      *)
C17_Witness ==
    /\ catalog = WARDROBE
    /\ \E r \in Requests :
          /\ Choosing(r)
          /\ requests[r].weather.temp_min <= requests[r].weather.temp_max
          /\ \E item \in ChoicesOf(r) :
                /\ item.main_comfort_min <= item.main_comfort_max
                /\ BelowComfort(item, requests[r]) /\ AboveComfort(item, requests[r])
                /\ IndependentScore(item, requests[r]) > Score(item, requests[r])


----------------------------------------------------------------------------
(* The properties of the order of selection *)

(* The catalog positions of combination k of a part, among the part's items. *)
PositionsOf(items, combo) == {i \in DOMAIN items : items[i] \in Members(combo)}

Least(positions) == CHOOSE i \in positions : \A j \in positions : i <= j

(* Ascending size and, within a size, lexicographic order of the positions. *)
EnumeratedBefore(a, b) ==
    \/ Cardinality(a) < Cardinality(b)
    \/ /\ Cardinality(a) = Cardinality(b)
       /\ a # b
       /\ Least((a \ b) \cup (b \ a)) \in a

(* The first, in the order of the list, of the entries of least score. *)
FirstOfTheBest(all, req) ==
    all[CHOOSE k \in DOMAIN all :
            /\ \A j \in DOMAIN all : Score(all[k], req) <= Score(all[j], req)
            /\ \A j \in 1..(k - 1) : Score(all[k], req) < Score(all[j], req)]

(* The places of the entries of least score. *)
Best(all, req) ==
    {k \in DOMAIN all : \A j \in DOMAIN all : Score(all[k], req) <= Score(all[j], req)}

(* C18: the item selected for a body part is the first, in the order the    *)
(* generator returns them, of the combinations of least score; that order  *)
(* is ascending subset size and, within a size, lexicographic order of the *)
(* catalog positions.                                                      *)
C18_TiesGoToTheFirstEnumerated ==
    \A r \in Requests : \A name \in DOMAIN requests[r].outfit :
        LET got == valid_combinations_for_part(catalog, PartOf(name))
            items == ItemsOfPart(PartOf(name))
        IN  /\ requests[r].outfit[name] = FirstOfTheBest(got.value, requests[r])
            /\ \A k \in 1..(Len(got.composed) - 1) :
                  EnumeratedBefore(PositionsOf(items, got.composed[k]),
                                   PositionsOf(items, got.composed[k + 1]))

(* A request selected, among several combinations of the least score, one   *)
(* that is not the first combination of the list.                          *)
C18_Witness ==
    \E r \in Requests : \E name \in DOMAIN requests[r].outfit :
        LET all == valid_combinations_for_part(catalog, PartOf(name)).value
        IN  /\ Cardinality(Best(all, requests[r])) >= 2
            /\ requests[r].outfit[name] # all[1]
            /\ \E k \in Best(all, requests[r]) : requests[r].outfit[name] = all[k]

(* C15: a request whose steps interleave with another request's returns,    *)
(* for every body part, the item a request with its conditions returns     *)
(* alone (the first of the combinations of least score), and the catalog   *)
(* is the list it was at the start.                                        *)
C15_InterleavedRequestsDoNotInterfere ==
    /\ catalog \in BaseCatalogs
    /\ \A r \in Requests :
          requests[r].pc = "return" =>
              /\ DOMAIN requests[r].outfit = {PartNames[i] : i \in DOMAIN PartNames}
              /\ \A name \in DOMAIN requests[r].outfit :
                    requests[r].outfit[name]
                        = FirstOfTheBest(valid_combinations_for_part(catalog, PartOf(name)).value,
                                         [weather |-> requests[r].weather,
                                          hours |-> requests[r].hours])

(* A request is about to return while another request, started under other  *)
(* conditions, is in the middle of its selection.                          *)
C15_Witness ==
    \E r \in Requests : \E o \in Requests \ {r} :
        /\ requests[r].pc = "return"
        /\ requests[o].pc = "select" /\ requests[o].idx > 1
        /\ requests[o].weather # requests[r].weather
        /\ requests[o].outfit # [name \in DOMAIN requests[o].outfit |-> requests[r].outfit[name]]

====
